---- MODULE Spec2Model ----
(***************************************************************************)
(* State-machine model of n8n-cli.py: the three typer commands `setup`,    *)
(* `status` and `logs`, each followed statement by statement; `setup`      *)
(* through show_banner, show_services_table, select_services, the          *)
(* confirmation prompt, run_setup_with_progress and the access             *)
(* information.  One behaviour of the model is one invocation of the       *)
(* program.  Everything the program prints is appended to `out`, the       *)
(* progress task is (total, completed, description) with the updates kept  *)
(* in `reported`, and the only per-service work the source performs,       *)
(* time.sleep(0.5), is counted in `slept`.                                 *)
(* Printed lines are kept as their text, without the rich markup tags and  *)
(* without the leading symbols and newlines that decorate them.            *)
(***************************************************************************)
EXTENDS Integers, Sequences, FiniteSets, TLC

VARIABLES
    pc,             \* position of the invocation in the source
    cmd,            \* the command typer dispatched to: "setup", "status", "logs"
    debug,          \* setup's --debug option
    argServices,    \* setup's --service option as parsed (None or a list)
    services,       \* setup's local variable `services`
    promptOutcome,  \* what inquirer.prompt did in select_services
    answers,        \* select_services' local `answers`: the 'services' entry
    excMsg,         \* select_services' local `e`: the message of the exception
    confirmAsked,   \* number of Confirm.ask calls made
    confirmAnswer,  \* what Confirm.ask returned: "none" before it is called
    total,          \* the progress task's total
    completed,      \* the progress task's completed count
    description,    \* the progress task's current description
    reported,       \* the step descriptions given to progress.update, in order
    cursor,         \* number of elements of selected_services already iterated
    slept,          \* number of time.sleep(0.5) calls made
    out,            \* what console.print has printed, in order
    logService,     \* logs' SERVICE argument (None or a name)
    follow,         \* logs' --follow option
    dockerCmd,      \* the argv handed to subprocess.run
    backend,        \* what subprocess.run did: "none" before it is called
    stdout,         \* status' result.stdout
    returning,      \* the last statement of the command is done, its return is next
    uncaught,       \* the exception that left the command, "none" if none did
    exited,         \* the process has exited
    exitCode        \* its exit code

vars == <<pc, cmd, debug, argServices, services, promptOutcome, answers,
          excMsg, confirmAsked, confirmAnswer, total, completed, description, reported, cursor,
          slept, out,
          logService, follow, dockerCmd, backend, stdout, returning, uncaught,
          exited, exitCode>>

setupVars   == <<debug, argServices, services, promptOutcome, answers, excMsg,
                 confirmAsked, confirmAnswer>>
progressVars == <<total, completed, description, reported, cursor, slept>>
bridgeVars  == <<logService, follow, dockerCmd, backend, stdout>>
exitVars    == <<uncaught, exited, exitCode>>

---------------------------------------------------------------------------
(* Bounds *)

\* longest list of --service values, and longest checkbox answer, explored
MaxLen == 2

---------------------------------------------------------------------------
(* Values *)

\* Optional[...]: None, or a value
None == [some |-> FALSE, val |-> <<>>]
Some(v) == [some |-> TRUE, val |-> v]

\* Python truthiness of an Optional[List[str]]: None and [] are falsy
Truthy(o) == o.some /\ o.val # <<>>

Range(s) == {s[i] : i \in 1..Len(s)}

\* sequences over S of length lo..hi
SeqsBetween(S, lo, hi) == UNION {[1..n -> S] : n \in lo..hi}

\* sequences without a repeated element
IsInjective(s) == \A i, j \in 1..Len(s) : s[i] = s[j] => i = j

\* separator.join(list)
RECURSIVE Join(_, _)
Join(sep, s) ==
    IF s = <<>> THEN ""
    ELSE IF Len(s) = 1 THEN s[1]
    ELSE s[1] \o sep \o Join(sep, Tail(s))

---------------------------------------------------------------------------
(* The Service Catalog *)

\* the dict SERVICES, as its items in insertion order
SERVICES ==
    << <<"traefik",    "Reverse proxy with automatic SSL certificates">>,
       <<"qdrant",     "Vector database for AI/ML workflows">>,
       <<"nginx",      "Web server for static files and additional routing">>,
       <<"postgres",   "PostgreSQL database for n8n data persistence">>,
       <<"monitoring", "Portainer for container management">> >>

\* list(SERVICES.keys())
ServiceKeys == [i \in 1..Len(SERVICES) |-> SERVICES[i][1]]

KeySet == Range(ServiceKeys)

\* service ids that are not keys of SERVICES, as a user may type them after
\* --service or as SERVICE: a plain name, and one that is a rich closing tag
UnknownIds == {"redis", "[/x]"}

\* what typer accepts as one --service value: any string
ServiceIds == KeySet \cup UnknownIds

\* what typer hands to setup as `services`: None without --service, else the
\* values in command-line order (repeats kept)
ServiceArgs == {None} \cup {Some(s) : s \in SeqsBetween(ServiceIds, 1, MaxLen)}

\* what the inquirer checkbox can answer: choices of SERVICES, none twice
CheckboxAnswers == {s \in SeqsBetween(KeySet, 0, MaxLen) : IsInjective(s)}

\* Optional[str]: None, or a string
NoneStr == [some |-> FALSE, val |-> ""]

\* Python truthiness of an Optional[str]: None and "" are falsy
TruthyStr(o) == o.some /\ o.val # ""

\* what typer hands to logs as `service`
LogServiceArgs == {NoneStr} \cup {Some(s) : s \in ServiceIds \cup {""}}

---------------------------------------------------------------------------
(* Decisions and pure computations of the source *)

\* mutation: the table and the prompt are shown whatever was supplied
NeedsSelection_always(s) == TRUE

\* `if not services:` before the catalog table and the selection prompt
NeedsSelection(s) == ~Truthy(s)

\* mutation: the empty-selection return is missing
IsEmptySelection_never(s) == FALSE

\* `if not services:` after the selection stage
IsEmptySelection(s) == ~Truthy(s)

\* what select_services returns, given what inquirer.prompt did: the answer's
\* 'services' entry, [] when prompt returned None, ['traefik'] when it raised
SelectResult(outcome, answer) ==
    CASE outcome = "answered" -> answer
      [] outcome = "aborted"  -> <<>>
      [] outcome = "raised"   -> <<"traefik">>

\* the two lines the except branch of select_services prints
FallbackWarning(e) ==
    << "Interactive selection not available: " \o e,
       "Using default services: traefik" >>

\* mutation: `Confirm.ask(...) or debug`, the prompt is always shown
NeedsConfirm_always(d) == TRUE

\* `debug or Confirm.ask(...)` evaluates Confirm.ask only when debug is false
NeedsConfirm(d) == ~d

\* mutation: the answer of the prompt is ignored
GateOpen_ignoreAnswer(d, answer) == TRUE

\* value of `debug or Confirm.ask(...)`; answer is only read when asked
GateOpen(d, answer) == d \/ answer

\* mutation: the total counts only one of the two fixed steps
ProgressTotal_offByOne(L) == Len(L) + 1

\* total=len(selected_services) + 2
ProgressTotal(L) == Len(L) + 2

\* f"Configuring {service}..."
ConfigureDescription(service) == "Configuring " \o service \o "..."

\* time.sleep(0.5) in the loop: executed for every service, `debug` is not read
SleepsPerService(d) == 1

\* mutation: the qdrant test is not nested under the traefik test
AccessInfo_flatQdrant(L) ==
    (IF "traefik" \in Range(L)
     THEN << "Access your services at:", "n8n: https://your-domain.com" >>
     ELSE << "Access your services at:", "n8n: http://localhost:5678" >>)
    \o (IF "qdrant" \in Range(L)
        THEN << "Qdrant: https://qdrant.your-domain.com" >>
        ELSE << >>)

\* the lines setup prints under "Show access information"
AccessInfo(L) ==
    IF "traefik" \in Range(L)
    THEN << "Access your services at:", "n8n: https://your-domain.com" >>
         \o (IF "qdrant" \in Range(L)
             THEN << "Qdrant: https://qdrant.your-domain.com" >>
             ELSE << >>)
    ELSE << "Access your services at:", "n8n: http://localhost:5678" >>

\* messages of the Exceptions inquirer.prompt can raise, without a usable
\* terminal for one: a plain one, and one that holds a rich closing tag
PromptErrors == {"Inappropriate ioctl for device", "bad [/x]"}

\* the command is about to execute the statement at p: it has neither
\* returned nor been left by an exception, and p is not already done
At(p) == pc = p /\ uncaught = "none" /\ ~returning

\* console.print(text) raises MarkupError on a closing tag nothing opened;
\* the texts of the model that hold one
BadMarkup(s) == s \in {"[/x]", "web [/x] up", "bad [/x]"}

\* line 127 prints ', '.join(services) as markup
SelectionBadMarkup(L) == \E i \in 1..Len(L) : BadMarkup(L[i])

\* position of the first occurrence of line in out, 0 when absent
IndexOf(line) ==
    IF line \in Range(out)
    THEN CHOOSE i \in 1..Len(out) :
           out[i] = line /\ \A j \in 1..(i - 1) : out[j] # line
    ELSE 0

\* the access information on the console: what follows the success message
AccessShown ==
    IF IndexOf("Setup completed successfully!") = 0 THEN << >>
    ELSE SubSeq(out, IndexOf("Setup completed successfully!") + 1, Len(out))

---------------------------------------------------------------------------
(* Initial state: the process has started, typer has not dispatched yet *)

Init ==
    /\ pc = "start"
    /\ cmd = "none"
    /\ debug = FALSE
    /\ argServices = None
    /\ services = None
    /\ promptOutcome = "none"
    /\ answers = None
    /\ excMsg = ""
    /\ confirmAsked = 0
    /\ confirmAnswer = "none"
    /\ total = 0
    /\ completed = 0
    /\ description = ""
    /\ reported = << >>
    /\ cursor = 0
    /\ slept = 0
    /\ out = << >>
    /\ logService = NoneStr
    /\ follow = FALSE
    /\ dockerCmd = << >>
    /\ backend = "none"
    /\ stdout = ""
    /\ returning = FALSE
    /\ uncaught = "none"
    /\ exited = FALSE
    /\ exitCode = 0

---------------------------------------------------------------------------
(* app(): typer parses the command line and calls one command *)

\* Typer calls setup, status or logs with the parsed options. With --help,
\* on the program or on a command, it writes the help text itself and calls
\* no command: the process is left to exit with 0. A command line that
\* names no command, or has a bad option, calls none either: a usage error.
app ==
    /\ At("start")
    /\ \/ /\ cmd' = "setup"
          /\ debug' \in BOOLEAN
          /\ argServices' \in ServiceArgs
          /\ services' = argServices'
          /\ pc' = "show_banner"
          /\ UNCHANGED <<logService, follow, uncaught>>
       \/ /\ cmd' = "status"
          /\ pc' = "status_152"
          /\ UNCHANGED <<debug, argServices, services, logService, follow,
                         uncaught>>
       \/ /\ cmd' = "logs"
          /\ logService' \in LogServiceArgs
          /\ follow' \in BOOLEAN
          /\ pc' = "logs_177"
          /\ UNCHANGED <<debug, argServices, services, uncaught>>
       \/ /\ pc' = "returned"
          /\ UNCHANGED <<cmd, debug, argServices, services, logService,
                         follow, uncaught>>
       \/ /\ uncaught' = "UsageError"
          /\ UNCHANGED <<cmd, pc, debug, argServices, services, logService,
                         follow>>
    /\ UNCHANGED <<returning, promptOutcome, answers, excMsg, confirmAsked,
                   confirmAnswer, progressVars, out, dockerCmd, backend,
                   stdout, exited, exitCode>>

\* Ctrl-C: KeyboardInterrupt is raised before the statement the process is
\* at, be it typer's dispatch or a statement of a command, or after the
\* last statement of a command, before it returns. Nothing in the source
\* catches it (`except Exception` does not), so it leaves the command.
interrupt ==
    /\ pc \notin {"completed", "cancelled", "no_selection", "returned"}
    /\ uncaught = "none"
    /\ uncaught' = "KeyboardInterrupt"
    /\ UNCHANGED <<pc, cmd, returning, setupVars, progressVars, out, bridgeVars, exited,
                   exitCode>>

---------------------------------------------------------------------------
(* setup *)

\* show_banner()
show_banner ==
    /\ At("show_banner")
    /\ out' = Append(out, "n8n Raspberry Pi Setup")
    /\ pc' = "setup_119"
    /\ UNCHANGED <<cmd, returning, setupVars, progressVars, bridgeVars, exitVars>>

\* if not services:
setup_if_not_supplied ==
    /\ At("setup_119")
    /\ pc' = IF NeedsSelection(services) THEN "show_services_table" ELSE "setup_123"
    /\ UNCHANGED <<cmd, returning, setupVars, progressVars, out, bridgeVars, exitVars>>

\* show_services_table(): one table, a row per item of SERVICES
show_services_table ==
    /\ At("show_services_table")
    /\ out' = Append(out, "Available Services: " \o Join(", ", ServiceKeys))
    /\ pc' = "select_services"
    /\ UNCHANGED <<cmd, returning, setupVars, progressVars, bridgeVars, exitVars>>

\* select_services(): the heading
select_services ==
    /\ At("select_services")
    /\ out' = Append(out, "Select the services you want to install:")
    /\ pc' = "inquirer_prompt"
    /\ UNCHANGED <<cmd, returning, setupVars, progressVars, bridgeVars, exitVars>>

\* answers = inquirer.prompt(choices): the prompt answers, is aborted by the
\* user (it returns None), or raises an Exception the except clause catches
select_services_prompt ==
    /\ At("inquirer_prompt")
    /\ \/ \E answer \in CheckboxAnswers :
            /\ promptOutcome' = "answered"
            /\ answers' = Some(answer)
            /\ pc' = "select_72"
            /\ excMsg' = excMsg
       \/ /\ promptOutcome' = "aborted"
          /\ answers' = None
          /\ pc' = "select_72"
          /\ excMsg' = excMsg
       \/ \E e \in PromptErrors :
            /\ promptOutcome' = "raised"
            /\ excMsg' = e
            /\ pc' = "select_75"
            /\ answers' = answers
    /\ UNCHANGED <<cmd, returning, debug, argServices, services, confirmAsked,
                   confirmAnswer, progressVars, out, bridgeVars, exitVars>>

\* return answers['services'] if answers else [], and setup's assignment
\* services = select_services()
select_services_return ==
    /\ At("select_72")
    /\ services' = Some(SelectResult(promptOutcome, answers.val))
    /\ pc' = "setup_123"
    /\ UNCHANGED <<cmd, returning, debug, argServices, promptOutcome, answers, excMsg,
                   confirmAsked, confirmAnswer, progressVars, out,
                   bridgeVars, exitVars>>

\* except Exception as e: the first line of the warning. The message of e
\* is printed as rich markup: one with a closing tag raises MarkupError in
\* the except clause, which leaves select_services and setup.
select_services_warn ==
    /\ At("select_75")
    /\ IF BadMarkup(excMsg)
       THEN /\ uncaught' = "MarkupError"
            /\ UNCHANGED <<pc, out>>
       ELSE /\ out' = Append(out, FallbackWarning(excMsg)[1])
            /\ pc' = "select_76"
            /\ uncaught' = uncaught
    /\ UNCHANGED <<cmd, returning, setupVars, progressVars, bridgeVars, exited, exitCode>>

\* the second line of the warning
select_services_default ==
    /\ At("select_76")
    /\ out' = Append(out, FallbackWarning(excMsg)[2])
    /\ pc' = "select_77"
    /\ UNCHANGED <<cmd, returning, setupVars, progressVars, bridgeVars, exitVars>>

\* return ['traefik'], and setup's assignment services = select_services()
select_services_fallback ==
    /\ At("select_77")
    /\ services' = Some(SelectResult(promptOutcome, << >>))
    /\ pc' = "setup_123"
    /\ UNCHANGED <<cmd, returning, debug, argServices, promptOutcome, answers, excMsg,
                   confirmAsked, confirmAnswer, progressVars, out,
                   bridgeVars, exitVars>>

\* if not services:
setup_if_empty ==
    /\ At("setup_123")
    /\ pc' = IF IsEmptySelection(services) THEN "setup_124" ELSE "setup_127"
    /\ UNCHANGED <<cmd, returning, setupVars, progressVars, out, bridgeVars, exitVars>>

\* console.print("No services selected. Exiting.")
setup_print_empty ==
    /\ At("setup_124")
    /\ out' = Append(out, "No services selected. Exiting.")
    /\ pc' = "setup_125"
    /\ UNCHANGED <<cmd, returning, setupVars, progressVars, bridgeVars, exitVars>>

\* return
setup_return_empty ==
    /\ At("setup_125")
    /\ pc' = "no_selection"
    /\ UNCHANGED <<cmd, returning, setupVars, progressVars, out, bridgeVars, exitVars>>

\* the selected services. The ids are printed as rich markup: one that is a
\* closing tag raises MarkupError, which leaves setup with nothing printed.
setup_print_selected ==
    /\ At("setup_127")
    /\ IF SelectionBadMarkup(services.val)
       THEN /\ uncaught' = "MarkupError"
            /\ UNCHANGED <<pc, out>>
       ELSE /\ out' = Append(out, "Selected services: " \o Join(", ", services.val))
            /\ pc' = "setup_129"
            /\ uncaught' = uncaught
    /\ UNCHANGED <<cmd, returning, setupVars, progressVars, bridgeVars, exited, exitCode>>

\* if debug:
setup_if_debug ==
    /\ At("setup_129")
    /\ pc' = IF debug THEN "setup_130" ELSE "setup_132"
    /\ UNCHANGED <<cmd, returning, setupVars, progressVars, out, bridgeVars, exitVars>>

\* the debug notice
setup_print_debug ==
    /\ At("setup_130")
    /\ out' = Append(out, "Debug mode: Configuration will be generated but services won't start")
    /\ pc' = "setup_132"
    /\ UNCHANGED <<cmd, returning, setupVars, progressVars, bridgeVars, exitVars>>

\* what Confirm.ask can do: return True or False, or raise: EOFError when
\* stdin is at end of file, KeyboardInterrupt on Ctrl-C
ConfirmOutcomes == {"yes", "no", "EOFError", "KeyboardInterrupt"}

\* if debug or Confirm.ask("Continue with setup?", default=True): the call of
\* Confirm.ask, made only when debug is false. setup has no handler: an
\* exception out of Confirm.ask leaves the command.
setup_confirm ==
    /\ At("setup_132")
    /\ NeedsConfirm(debug)
    /\ confirmAnswer = "none"
    /\ confirmAsked' = confirmAsked + 1
    /\ \E r \in ConfirmOutcomes :
         IF r \in {"yes", "no"}
         THEN /\ confirmAnswer' = r
              /\ uncaught' = uncaught
         ELSE /\ uncaught' = r
              /\ confirmAnswer' = confirmAnswer
    /\ UNCHANGED <<pc, cmd, returning, debug, argServices, services, promptOutcome,
                   answers, excMsg, progressVars, out, bridgeVars, exited,
                   exitCode>>

\* the branch of line 132 on the value of `debug or Confirm.ask(...)`: into
\* run_setup_with_progress, or to the else clause
setup_gate ==
    /\ At("setup_132")
    /\ NeedsConfirm(debug) => confirmAnswer # "none"
    /\ pc' = IF GateOpen(debug, confirmAnswer = "yes")
             THEN "run_add_task" ELSE "setup_145"
    /\ UNCHANGED <<cmd, returning, setupVars, progressVars, out, bridgeVars, exitVars>>

\* else: console.print("Setup cancelled."), the last statement of setup
setup_cancelled ==
    /\ At("setup_145")
    /\ out' = Append(out, "Setup cancelled.")
    /\ returning' = TRUE
    /\ UNCHANGED <<pc, cmd, setupVars, progressVars, bridgeVars, exitVars>>

\* setup returns from the else clause
setup_return_cancelled ==
    /\ pc = "setup_145" /\ returning /\ uncaught = "none"
    /\ pc' = "cancelled"
    /\ returning' = FALSE
    /\ UNCHANGED <<cmd, setupVars, progressVars, out, bridgeVars, exitVars>>

---------------------------------------------------------------------------
(* run_setup_with_progress(services, debug) *)

\* with Progress(...) as progress:
\* progress.add_task("Setting up services...", total=len(selected_services) + 2)
run_add_task ==
    /\ At("run_add_task")
    /\ total' = ProgressTotal(services.val)
    /\ completed' = 0
    /\ description' = "Setting up services..."
    /\ reported' = << >>
    /\ cursor' = 0
    /\ pc' = "run_dependencies"
    /\ UNCHANGED <<cmd, returning, setupVars, slept, out, bridgeVars, exitVars>>

\* progress.update(setup_task, description="Checking dependencies...")
run_dependencies_update ==
    /\ At("run_dependencies")
    /\ description' = "Checking dependencies..."
    /\ reported' = Append(reported, description')
    /\ pc' = "run_dependencies_advance"
    /\ UNCHANGED <<cmd, returning, setupVars, total, completed, cursor, slept, out,
                   bridgeVars, exitVars>>

\* progress.advance(setup_task), and the loop's first element
run_dependencies_advance ==
    /\ At("run_dependencies_advance")
    /\ completed' = completed + 1
    /\ pc' = IF cursor < Len(services.val) THEN "run_configure" ELSE "run_generate"
    /\ UNCHANGED <<cmd, returning, setupVars, total, description, reported, cursor,
                   slept, out, bridgeVars, exitVars>>

\* `for service in selected_services`, first statement of an iteration:
\* progress.update(setup_task, description=f"Configuring {service}...")
run_configure_update ==
    /\ At("run_configure")
    /\ LET service == services.val[cursor + 1] IN
         description' = ConfigureDescription(service)
    /\ reported' = Append(reported, description')
    /\ pc' = "run_configure_sleep"
    /\ UNCHANGED <<cmd, returning, setupVars, total, completed, cursor, slept, out,
                   bridgeVars, exitVars>>

\* what time.sleep(0.5) can do: return, or raise KeyboardInterrupt on Ctrl-C
SleepOutcomes == {"ok", "KeyboardInterrupt"}

\* time.sleep(0.5): the task shows the new description and the old count
\* meanwhile. Nothing catches a KeyboardInterrupt: it ends the Progress
\* context and leaves run_setup_with_progress and setup.
run_configure_sleep ==
    /\ At("run_configure_sleep")
    /\ slept' = slept + SleepsPerService(debug)
    /\ \E r \in SleepOutcomes :
         IF r = "ok"
         THEN /\ pc' = "run_configure_advance"
              /\ uncaught' = uncaught
         ELSE /\ uncaught' = r
              /\ pc' = pc
    /\ UNCHANGED <<cmd, returning, setupVars, total, completed, description, reported,
                   cursor, out, bridgeVars, exited, exitCode>>

\* progress.advance(setup_task), and the loop's next element
run_configure_advance ==
    /\ At("run_configure_advance")
    /\ completed' = completed + 1
    /\ cursor' = cursor + 1
    /\ pc' = IF cursor' < Len(services.val) THEN "run_configure" ELSE "run_generate"
    /\ UNCHANGED <<cmd, returning, setupVars, total, description, reported, slept, out,
                   bridgeVars, exitVars>>

\* progress.update(setup_task, description="Generating configuration files...")
run_generate_update ==
    /\ At("run_generate")
    /\ description' = "Generating configuration files..."
    /\ reported' = Append(reported, description')
    /\ pc' = "run_generate_advance"
    /\ UNCHANGED <<cmd, returning, setupVars, total, completed, cursor, slept, out,
                   bridgeVars, exitVars>>

\* progress.advance(setup_task); the Progress context ends
run_generate_advance ==
    /\ At("run_generate_advance")
    /\ completed' = completed + 1
    /\ pc' = "run_success"
    /\ UNCHANGED <<cmd, returning, setupVars, total, description, reported, cursor,
                   slept, out, bridgeVars, exitVars>>

\* console.print("Setup completed successfully!"); return to setup
run_success ==
    /\ At("run_success")
    /\ out' = Append(out, "Setup completed successfully!")
    /\ pc' = "setup_136"
    /\ UNCHANGED <<cmd, returning, setupVars, progressVars, bridgeVars, exitVars>>

\* Show access information: the tests on services (lines 136, 139) choose
\* the lines, each console.print is a step of its own
setup_access_info ==
    /\ At("setup_136")
    /\ LET lines == AccessInfo(services.val)
           n == Len(AccessShown)
       IN /\ n < Len(lines)
          /\ out' = Append(out, lines[n + 1])
    /\ UNCHANGED <<pc, cmd, returning, setupVars, progressVars, bridgeVars,
                   exitVars>>

\* nothing is left to print: after line 138 the test of line 139 finds no
\* qdrant, or the last print of the branch (line 140, line 143) is done;
\* setup returns
setup_access_end ==
    /\ At("setup_136")
    /\ Len(AccessShown) = Len(AccessInfo(services.val))
    /\ pc' = "completed"
    /\ UNCHANGED <<cmd, returning, setupVars, progressVars, out, bridgeVars,
                   exitVars>>

---------------------------------------------------------------------------
(* status *)

\* what subprocess.run(..., check=True) can do: return, or raise
\* CalledProcessError (non-zero exit of docker), FileNotFoundError (no
\* docker on PATH), PermissionError (docker not executable),
\* UnicodeDecodeError (text=True and output that is not UTF-8),
\* KeyboardInterrupt (Ctrl-C while docker runs)
BackendOutcomes ==
    {"ok", "CalledProcessError", "FileNotFoundError", "PermissionError",
     "UnicodeDecodeError", "KeyboardInterrupt"}

\* the exceptions status and logs have an except clause for
Handled == {"CalledProcessError", "FileNotFoundError"}

\* what `docker compose ps` can write to stdout: nothing, blanks, a listing,
\* a listing with a closing tag rich cannot match
StatusStdouts == {"", " ", "NAME  IMAGE  STATUS", "web [/x] up"}

\* str.strip() on the modelled outputs
Strip(s) == IF s \in {"", " "} THEN "" ELSE s

\* console.print("Checking service status...")
status_begin ==
    /\ At("status_152")
    /\ out' = Append(out, "Checking service status...")
    /\ pc' = "status_155"
    /\ UNCHANGED <<cmd, returning, setupVars, progressVars, bridgeVars, exitVars>>

\* result = subprocess.run(['docker', 'compose', 'ps'], capture_output=True,
\* text=True, check=True): control goes on in the try block, to the except
\* clause of the exception, or out of status
status_run ==
    /\ At("status_155")
    /\ dockerCmd' = << "docker", "compose", "ps" >>
    /\ \E outcome \in BackendOutcomes :
         /\ backend' = outcome
         /\ CASE outcome = "ok" ->
                   /\ stdout' \in StatusStdouts
                   /\ pc' = "status_158"
                   /\ uncaught' = uncaught
              [] outcome = "CalledProcessError" ->
                   /\ pc' = "status_165"
                   /\ UNCHANGED <<stdout, uncaught>>
              [] outcome = "FileNotFoundError" ->
                   /\ pc' = "status_167"
                   /\ UNCHANGED <<stdout, uncaught>>
              [] OTHER ->
                   /\ uncaught' = outcome
                   /\ UNCHANGED <<stdout, pc>>
    /\ UNCHANGED <<cmd, returning, setupVars, progressVars, out, logService, follow,
                   exited, exitCode>>

\* if result.stdout.strip():
status_if_output ==
    /\ At("status_158")
    /\ pc' = IF Strip(stdout) # "" THEN "status_159" ELSE "status_162"
    /\ UNCHANGED <<cmd, returning, setupVars, progressVars, out, bridgeVars, exitVars>>

\* console.print("Running services:")
status_print_heading ==
    /\ At("status_159")
    /\ out' = Append(out, "Running services:")
    /\ pc' = "status_160"
    /\ UNCHANGED <<cmd, returning, setupVars, progressVars, bridgeVars, exitVars>>

\* console.print(result.stdout): docker's output is printed as rich markup,
\* and MarkupError is not one of the exceptions status handles
status_print_output ==
    /\ At("status_160")
    /\ IF BadMarkup(stdout)
       THEN /\ uncaught' = "MarkupError"
            /\ UNCHANGED <<pc, out, returning>>
       ELSE /\ out' = Append(out, stdout)
            /\ returning' = TRUE
            /\ UNCHANGED <<pc, uncaught>>
    /\ UNCHANGED <<cmd, setupVars, progressVars, bridgeVars, exited, exitCode>>

\* console.print("No services are currently running.")
status_print_none ==
    /\ At("status_162")
    /\ out' = Append(out, "No services are currently running.")
    /\ returning' = TRUE
    /\ UNCHANGED <<pc, cmd, setupVars, progressVars, bridgeVars, exitVars>>

\* except subprocess.CalledProcessError: print
status_print_failed ==
    /\ At("status_165")
    /\ out' = Append(out, "Error: Could not check service status. Is Docker running?")
    /\ returning' = TRUE
    /\ UNCHANGED <<pc, cmd, setupVars, progressVars, bridgeVars, exitVars>>

\* except FileNotFoundError: print
status_print_missing ==
    /\ At("status_167")
    /\ out' = Append(out, "Error: Docker not found. Please install Docker first.")
    /\ returning' = TRUE
    /\ UNCHANGED <<pc, cmd, setupVars, progressVars, bridgeVars, exitVars>>

\* status returns after the last statement of the branch taken
status_return ==
    /\ pc \in {"status_160", "status_162", "status_165", "status_167"}
    /\ returning /\ uncaught = "none"
    /\ pc' = "returned"
    /\ returning' = FALSE
    /\ UNCHANGED <<cmd, setupVars, progressVars, out, bridgeVars, exitVars>>

---------------------------------------------------------------------------
(* logs *)

\* logs captures no output, so nothing is decoded
LogsOutcomes == BackendOutcomes \ {"UnicodeDecodeError"}

\* cmd = ['docker', 'compose', 'logs']
logs_build ==
    /\ At("logs_177")
    /\ dockerCmd' = << "docker", "compose", "logs" >>
    /\ pc' = "logs_178"
    /\ UNCHANGED <<cmd, returning, setupVars, progressVars, out, logService, follow,
                   backend, stdout, exitVars>>

\* if follow: cmd.append('-f')
logs_build_follow ==
    /\ At("logs_178")
    /\ dockerCmd' = IF follow THEN Append(dockerCmd, "-f") ELSE dockerCmd
    /\ pc' = "logs_180"
    /\ UNCHANGED <<cmd, returning, setupVars, progressVars, out, logService, follow,
                   backend, stdout, exitVars>>

\* if service: cmd.append(service)
logs_build_service ==
    /\ At("logs_180")
    /\ dockerCmd' = IF TruthyStr(logService)
                    THEN Append(dockerCmd, logService.val) ELSE dockerCmd
    /\ pc' = "logs_184"
    /\ UNCHANGED <<cmd, returning, setupVars, progressVars, out, logService, follow,
                   backend, stdout, exitVars>>

\* subprocess.run(cmd, check=True): it returns, the last statement of the try
\* block; or control goes to the except clause of the exception; or the
\* exception leaves logs
logs_run ==
    /\ At("logs_184")
    /\ \E outcome \in LogsOutcomes :
         /\ backend' = outcome
         /\ CASE outcome = "ok" ->
                   /\ returning' = TRUE
                   /\ UNCHANGED <<pc, uncaught>>
              [] outcome = "CalledProcessError" ->
                   /\ pc' = "logs_186"
                   /\ UNCHANGED <<returning, uncaught>>
              [] outcome = "FileNotFoundError" ->
                   /\ pc' = "logs_188"
                   /\ UNCHANGED <<returning, uncaught>>
              [] OTHER ->
                   /\ uncaught' = outcome
                   /\ UNCHANGED <<returning, pc>>
    /\ UNCHANGED <<cmd, setupVars, progressVars, out, logService, follow,
                   dockerCmd, stdout, exited, exitCode>>

\* except subprocess.CalledProcessError: the name is printed as rich markup,
\* one that is a closing tag raises MarkupError in the except clause
logs_print_failed ==
    /\ At("logs_186")
    /\ IF TruthyStr(logService) /\ BadMarkup(logService.val)
       THEN /\ uncaught' = "MarkupError"
            /\ UNCHANGED <<pc, out, returning>>
       ELSE /\ out' = Append(out, "Error: Could not show logs for "
                      \o (IF TruthyStr(logService) THEN logService.val ELSE "services"))
            /\ returning' = TRUE
            /\ UNCHANGED <<pc, uncaught>>
    /\ UNCHANGED <<cmd, setupVars, progressVars, bridgeVars, exited, exitCode>>

\* except FileNotFoundError: print
logs_print_missing ==
    /\ At("logs_188")
    /\ out' = Append(out, "Error: Docker not found.")
    /\ returning' = TRUE
    /\ UNCHANGED <<pc, cmd, setupVars, progressVars, bridgeVars, exitVars>>

\* logs returns after the last statement of the branch taken
logs_return ==
    /\ pc \in {"logs_184", "logs_186", "logs_188"}
    /\ returning /\ uncaught = "none"
    /\ pc' = "returned"
    /\ returning' = FALSE
    /\ UNCHANGED <<cmd, setupVars, progressVars, out, bridgeVars, exitVars>>

---------------------------------------------------------------------------
(* The command function has returned or raised: the process exits *)

Returned == pc \in {"completed", "cancelled", "no_selection", "returned"}

\* exit status of the process: 0 when the command returned or the help was
\* shown, 2 after a usage error, 130 after a KeyboardInterrupt, 1 after any
\* other exception (typer reports EOFError at a prompt as "Aborted.", the
\* others with a traceback)
ExitStatus(exc) ==
    CASE exc = "none" -> 0
      [] exc = "UsageError" -> 2
      [] exc = "KeyboardInterrupt" -> 130
      [] OTHER -> 1

app_exit ==
    /\ Returned \/ uncaught # "none"
    /\ ~exited
    /\ exited' = TRUE
    /\ exitCode' = ExitStatus(uncaught)
    /\ UNCHANGED <<pc, cmd, returning, setupVars, progressVars, out, bridgeVars, uncaught>>

---------------------------------------------------------------------------

Next ==
    \/ app
    \/ interrupt
    \/ show_banner
    \/ setup_if_not_supplied
    \/ show_services_table
    \/ select_services
    \/ select_services_prompt
    \/ select_services_return
    \/ select_services_warn
    \/ select_services_default
    \/ select_services_fallback
    \/ setup_if_empty
    \/ setup_print_empty
    \/ setup_return_empty
    \/ setup_print_selected
    \/ setup_if_debug
    \/ setup_print_debug
    \/ setup_confirm
    \/ setup_gate
    \/ setup_cancelled
    \/ setup_return_cancelled
    \/ run_add_task
    \/ run_dependencies_update
    \/ run_dependencies_advance
    \/ run_configure_update
    \/ run_configure_sleep
    \/ run_configure_advance
    \/ run_generate_update
    \/ run_generate_advance
    \/ run_success
    \/ setup_access_info
    \/ setup_access_end
    \/ status_begin
    \/ status_run
    \/ status_if_output
    \/ status_print_heading
    \/ status_print_output
    \/ status_print_none
    \/ status_print_failed
    \/ status_print_missing
    \/ status_return
    \/ logs_build
    \/ logs_build_follow
    \/ logs_build_service
    \/ logs_run
    \/ logs_print_failed
    \/ logs_print_missing
    \/ logs_return
    \/ app_exit

Spec == Init /\ [][Next]_vars

---------------------------------------------------------------------------
(* The workflow state machine of setup, read off the position in the source *)

RunningPcs ==
    {"run_add_task", "run_dependencies", "run_dependencies_advance",
     "run_configure", "run_configure_sleep", "run_configure_advance",
     "run_generate", "run_generate_advance", "run_success", "setup_136"}

\* the statements of select_services after the heading
SelectPcs == {"inquirer_prompt", "select_72", "select_75", "select_76", "select_77"}

\* an exception out of a step of the run is Failed; one raised anywhere
\* else ends the workflow before any of its outcomes: Aborted. After a
\* decline the gate is being left until "Setup cancelled." is printed.
WorkflowState ==
    IF cmd # "setup" THEN "NotSetup"
    ELSE IF uncaught # "none"
    THEN (IF pc \in RunningPcs THEN "Failed" ELSE "Aborted")
    ELSE
    CASE pc \in {"show_banner", "setup_119", "show_services_table"} -> "Idle"
      [] pc = "select_services" -> "CatalogShown"
      [] pc \in SelectPcs -> "Selecting"
      [] pc \in {"setup_123", "setup_124", "setup_125", "setup_127",
                 "setup_129", "setup_130"} -> "Selected"
      [] pc \in {"setup_132", "setup_145"} -> "Confirming"
      [] pc \in RunningPcs -> "Running"
      [] pc = "completed" -> "Completed"
      [] pc = "cancelled" -> "Cancelled"
      [] pc = "no_selection" -> "NoSelection"

Terminal == {"Cancelled", "Completed", "Failed"}

\* a selection was given with --service
Supplied == cmd = "setup" /\ Truthy(argServices)

\* the selection stage has been entered: the table, the heading or the prompt
SelectionStageEntered ==
    \/ pc \in {"show_services_table", "select_services"} \cup SelectPcs
    \/ "Available Services: " \o Join(", ", ServiceKeys) \in Range(out)
    \/ "Select the services you want to install:" \in Range(out)
    \/ promptOutcome # "none"

\* the branch on the supplied selection has been taken
PastSelectionBranch == cmd = "setup" /\ pc \notin {"show_banner", "setup_119"}

\* the selection stage is over and the empty test has been made
PastEmptyTest ==
    /\ cmd = "setup"
    /\ pc \notin {"show_banner", "setup_119", "show_services_table",
                  "select_services", "setup_123"} \cup SelectPcs

\* a progress step has been executed
StepExecuted == completed > 0 \/ reported # << >> \/ slept > 0

AccessLines ==
    {"Access your services at:", "n8n: https://your-domain.com",
     "Qdrant: https://qdrant.your-domain.com", "n8n: http://localhost:5678"}

NoAccessInfo == Range(out) \cap AccessLines = {}

\* the steps run_setup_with_progress is to report for the list L
ExpectedSteps(L) ==
    << "Checking dependencies..." >>
    \o [i \in 1..Len(L) |-> "Configuring " \o L[i] \o "..."]
    \o << "Generating configuration files..." >>

IsPrefix(s, t) == Len(s) <= Len(t) /\ s = SubSeq(t, 1, Len(s))

---------------------------------------------------------------------------
(* Claims *)

\* C1: when a selection given with --service has a member that is not a key
\* of SERVICES, setup fails before the Confirmation Gate and executes no
\* progress step (the workflow never enters Running).
C1_UnknownIdAborts ==
    (Supplied /\ ~(Range(argServices.val) \subseteq KeySet))
        => /\ WorkflowState \notin {"Confirming", "Running", "Completed", "Cancelled"}
           /\ confirmAsked = 0
           /\ ~StepExecuted

\* C2: the selection stage (table, select_services) is skipped if and only
\* if a selection was given with --service; when one is given the workflow
\* goes from Idle straight to Selected and every later stage (the printed
\* selection, the steps, the access information) uses exactly the given list.
C2_SelectingSkippedIffSupplied ==
    PastSelectionBranch =>
        /\ SelectionStageEntered <=> ~Supplied
        /\ Supplied =>
             /\ services = argServices
             /\ WorkflowState \notin {"CatalogShown", "Selecting"}
             /\ PastEmptyTest /\ pc # "setup_127" =>
                  "Selected services: " \o Join(", ", argServices.val) \in Range(out)
             /\ WorkflowState \in {"Running", "Completed"} /\ pc # "run_add_task" =>
                  /\ total = Len(argServices.val) + 2
                  /\ IsPrefix(reported, ExpectedSteps(argServices.val))
             /\ WorkflowState = "Completed" =>
                  /\ reported = ExpectedSteps(argServices.val)
                  /\ AccessShown # << >>
                  /\ ("n8n: https://your-domain.com" \in Range(AccessShown)
                        <=> "traefik" \in Range(argServices.val))

C2_Witness ==
    /\ Supplied
    /\ argServices.val = << "redis", "qdrant" >>
    /\ WorkflowState = "Completed"

C3_WitnessInterruptedLate ==
    /\ cmd = "setup" /\ ~debug
    /\ confirmAnswer = "no"
    /\ pc = "setup_145" /\ returning
    /\ uncaught = "KeyboardInterrupt"
    /\ exitCode = 130

\* the state between Confirm.ask returning False and line 145, interrupted
C3_WitnessInterrupted ==
    /\ cmd = "setup" /\ ~debug
    /\ confirmAnswer = "no"
    /\ pc = "setup_132"
    /\ uncaught = "KeyboardInterrupt"
    /\ exitCode = 130

\* C4: in debug mode with a non-empty selection the user is never asked to
\* confirm, Cancelled is never reached, and the step the program takes from
\* Confirming is always to Running (the only other step there is Ctrl-C).
C4_DebugBypassesGate ==
    /\ []((cmd = "setup" /\ debug)
            => /\ confirmAsked = 0
               /\ confirmAnswer = "none"
               /\ "Setup cancelled." \notin Range(out)
               /\ WorkflowState # "Cancelled")
    /\ [][(cmd = "setup" /\ debug /\ WorkflowState = "Confirming")
            => (WorkflowState' = "Running" \/ uncaught' = "KeyboardInterrupt")]_vars

C4_Witness ==
    /\ cmd = "setup" /\ debug
    /\ promptOutcome = "answered"
    /\ WorkflowState = "Completed"

\* C5: in debug mode every step description is still reported but no work
\* is performed: time.sleep, the per-service work, runs only when debug is
\* false.
C5_DebugDoesNoWork ==
    (cmd = "setup" /\ debug)
        => /\ slept = 0
           /\ WorkflowState = "Completed" => reported = ExpectedSteps(services.val)

\* C6: for a selection within the catalog the access information shown
\* after a completed setup depends on the set of selected services only:
\* with traefik, the HTTPS n8n entry first, then the qdrant entry exactly
\* when qdrant is selected too; without traefik, only the local HTTP entry.
C6_AccessInfoRule ==
    (WorkflowState = "Completed" /\ Range(services.val) \subseteq KeySet) =>
        LET S == Range(services.val) IN
        /\ ("traefik" \in S /\ "qdrant" \in S) =>
             AccessShown = << "Access your services at:",
                              "n8n: https://your-domain.com",
                              "Qdrant: https://qdrant.your-domain.com" >>
        /\ ("traefik" \in S /\ "qdrant" \notin S) =>
             AccessShown = << "Access your services at:",
                              "n8n: https://your-domain.com" >>
        /\ "traefik" \notin S =>
             AccessShown = << "Access your services at:",
                              "n8n: http://localhost:5678" >>

C6_Witness ==
    /\ WorkflowState = "Completed"
    /\ services.val = << "qdrant", "traefik" >>
    /\ Len(AccessShown) = 3

C6_WitnessNoTraefik ==
    /\ WorkflowState = "Completed"
    /\ services.val = << "qdrant", "postgres" >>
    /\ Len(AccessShown) = 2

\* C7: whenever the prompt raises, select_services raises no error of its
\* own to its caller (only a Ctrl-C can end it), and once it has returned
\* it has returned exactly ['traefik'] and the fallback warning is on the
\* console.
C7_FallbackOnRaise ==
    promptOutcome = "raised" =>
        /\ pc \in {"select_75", "select_76", "select_77"} =>
             uncaught \in {"none", "KeyboardInterrupt"}
        /\ pc \notin SelectPcs =>
             /\ services = Some(<< "traefik" >>)
             /\ \E i \in 1..(Len(out) - 1) :
                  /\ out[i] = "Interactive selection not available: " \o excMsg
                  /\ out[i + 1] = "Using default services: traefik"

\* the fallback ran to its end: the default came back, after the warning
C7_FallbackReturned ==
    /\ promptOutcome = "raised"
    /\ pc = "setup_123"
    /\ services = Some(<< "traefik" >>)

\* C8: a command exits with 0 on success or cancellation and with a
\* non-zero code on a failure: status and logs when docker is missing or
\* returns a failure status, setup when a --service id is unknown.
FailureOccurred ==
    \/ cmd \in {"status", "logs"} /\ backend \in {"CalledProcessError", "FileNotFoundError"}
    \/ Supplied /\ ~(Range(argServices.val) \subseteq KeySet)
    \/ uncaught # "none"

C8_ExitCodes ==
    exited => (IF FailureOccurred THEN exitCode # 0 ELSE exitCode = 0)

\* C9: an empty selection after the selection stage ends the command with
\* no confirmation prompt, no progress step and no access information: the
\* only statements left are the message and the return.
C9_EmptySelectionShortCircuits ==
    (PastEmptyTest /\ ~Truthy(services)) =>
        /\ pc \in {"setup_124", "setup_125", "no_selection"}
        /\ pc # "setup_124" => out[Len(out)] = "No services selected. Exiting."
        /\ pc = "setup_124" => "No services selected. Exiting." \notin Range(out)
        /\ confirmAsked = 0
        /\ ~StepExecuted
        /\ total = 0
        /\ NoAccessInfo
        /\ "Setup completed successfully!" \notin Range(out)
        /\ "Selected services: " \notin Range(out)

C9_Witness ==
    /\ pc = "no_selection"
    /\ promptOutcome = "aborted"
    /\ exited

C9_WitnessNothingTicked ==
    /\ pc = "no_selection"
    /\ promptOutcome = "answered"

\* C10: run_setup_with_progress reports the dependency check, then one
\* configure step per element of the list in list order, then the
\* configuration-file generation; every step is an update of the
\* description followed by an advance of the count; the completed count
\* never exceeds the total len(L)+2, reaches it exactly when the last step
\* has been advanced, and the success message comes only after that.
RunStarted == pc \in (RunningPcs \ {"run_add_task"}) \cup {"completed"}

\* between progress.update and progress.advance of a step
MidStep ==
    pc \in {"run_dependencies_advance", "run_configure_sleep",
            "run_configure_advance", "run_generate_advance"}

RunFinished == pc \in {"run_success", "setup_136", "completed"}

C10_StepsInOrder ==
    /\ completed <= total
    /\ RunStarted =>
         /\ total = Len(services.val) + 2
         /\ IsPrefix(reported, ExpectedSteps(services.val))
         /\ Len(reported) = (IF MidStep THEN completed + 1 ELSE completed)
         /\ description = (IF reported = << >> THEN "Setting up services..."
                           ELSE reported[Len(reported)])
         /\ completed = total <=> RunFinished
         /\ RunFinished => reported = ExpectedSteps(services.val)
    /\ "Setup completed successfully!" \in Range(out) =>
         /\ completed = total
         /\ reported = ExpectedSteps(services.val)
         /\ description = "Generating configuration files..."

C10_Witness ==
    /\ pc = "run_success"
    /\ services.val = << "qdrant", "qdrant" >>
    /\ completed = 4

\* the state between the update and the advance of the dependency check
C10_WitnessMidStep ==
    /\ pc = "run_dependencies_advance"
    /\ Len(reported) = 1
    /\ completed = 0

====
